---- MODULE Spec2Model ----
(***************************************************************************)
(* Model of the secret scan of scripts/validate_files_structure.py:        *)
(* search_potential_secrets and the functions it calls, and the part of    *)
(* validate_committed_files that consumes its result.                      *)
(*                                                                         *)
(* A string is a sequence of one-character strings, so that split, strip,  *)
(* lower, the substring test and the regular expressions are computed on   *)
(* the characters as the Python code computes them.                        *)
(***************************************************************************)
EXTENDS Integers, Sequences, FiniteSets, Bags, TLC

(***************************************************************************)
(* Characters                                                              *)
(***************************************************************************)
LowerSeq ==
    << "a", "b", "c", "d", "e", "f", "g", "h", "i", "j", "k", "l", "m",
       "n", "o", "p", "q", "r", "s", "t", "u", "v", "w", "x", "y", "z" >>

UpperSeq ==
    << "A", "B", "C", "D", "E", "F", "G", "H", "I", "J", "K", "L", "M",
       "N", "O", "P", "Q", "R", "S", "T", "U", "V", "W", "X", "Y", "Z" >>

Range(s) == { s[i] : i \in DOMAIN s }

Lowers == Range(LowerSeq)

Uppers == Range(UpperSeq)

Letters == Lowers \cup Uppers

Digits == { "0", "1", "2", "3", "4", "5", "6", "7", "8", "9" }

HexDigits == Digits \cup { "a", "b", "c", "d", "e", "f", "A", "B", "C", "D", "E", "F" }

\* string.punctuation (the backquote left out: a string cannot hold it here)
Punctuation ==
    { "!", "\"", "#", "$", "%", "&", "'", "(", ")", "*", "+", ",", "-", ".",
      "/", ":", ";", "<", "=", ">", "?", "@", "[", "\\", "]", "^", "_",
      "{", "|", "}", "~" }

\* the characters \s matches and str.split() splits on (vertical tab left out:
\* it has no escape here)
Whitespace == { " ", "\t", "\n", "\r", "\f" }

\* string.printable
Printable == Digits \cup Letters \cup Punctuation \cup Whitespace

\* . of a regular expression: any character but the newline
AnyChar == Printable \ { "\n" }

\* \S of a regular expression
NonSpace == Printable \ Whitespace

(***************************************************************************)
(* Python string operations                                                *)
(***************************************************************************)
Max(S) == CHOOSE x \in S : \A y \in S : y <= x

\* a character of str.lower()
LowerChar(c) ==
    IF c \in Uppers
    THEN LowerSeq[CHOOSE i \in DOMAIN UpperSeq : UpperSeq[i] = c]
    ELSE c

\* s.lower()
Lower(s) == [i \in DOMAIN s |-> LowerChar(s[i])]

\* s[i:j] with 1-based inclusive bounds
Slice(s, i, j) == SubSeq(s, i, j)

\* s.startswith(sub) at position i
MatchAt(sub, s, i) ==
    /\ i + Len(sub) - 1 <= Len(s)
    /\ \A k \in 1..Len(sub) : s[i + k - 1] = sub[k]

\* sub in s   (the empty string is in every string)
Contains(sub, s) == \E i \in 1..(Len(s) + 1) : MatchAt(sub, s, i)

\* s.count(c) for a character c
Count(s, c) == Cardinality({ i \in DOMAIN s : s[i] = c })

RECURSIVE SplitFrom(_, _, _, _)
SplitFrom(s, sep, start, i) ==
    IF i > Len(s)
    THEN << Slice(s, start, Len(s)) >>
    ELSE IF s[i] = sep
         THEN << Slice(s, start, i - 1) >> \o SplitFrom(s, sep, i + 1, i + 1)
         ELSE SplitFrom(s, sep, start, i + 1)

\* s.split(sep) for a one-character separator: keeps empty pieces
Split(s, sep) == SplitFrom(s, sep, 1, 1)

RECURSIVE SplitWsFrom(_, _, _)
SplitWsFrom(s, start, i) ==
    IF i > Len(s)
    THEN IF start < i THEN << Slice(s, start, Len(s)) >> ELSE << >>
    ELSE IF s[i] \in Whitespace
         THEN (IF start < i THEN << Slice(s, start, i - 1) >> ELSE << >>)
              \o SplitWsFrom(s, i + 1, i + 1)
         ELSE SplitWsFrom(s, start, i + 1)

\* s.split(): splits on runs of whitespace, no empty pieces
SplitWs(s) == SplitWsFrom(s, 1, 1)

RECURSIVE LStrip(_, _)
LStrip(s, chars) ==
    IF s # << >> /\ s[1] \in chars THEN LStrip(Tail(s), chars) ELSE s

RECURSIVE RStrip(_, _)
RStrip(s, chars) ==
    IF s # << >> /\ s[Len(s)] \in chars
    THEN RStrip(Slice(s, 1, Len(s) - 1), chars)
    ELSE s

\* s.strip(chars)
Strip(s, chars) == RStrip(LStrip(s, chars), chars)

RECURSIVE ReplaceFrom(_, _, _, _)
ReplaceFrom(s, old, new, i) ==
    IF i > Len(s)
    THEN IF old = << >> THEN new ELSE << >>
    ELSE IF old = << >>
         THEN new \o << s[i] >> \o ReplaceFrom(s, old, new, i + 1)
         ELSE IF MatchAt(old, s, i)
              THEN new \o ReplaceFrom(s, old, new, i + Len(old))
              ELSE << s[i] >> \o ReplaceFrom(s, old, new, i + 1)

\* s.replace(old, new): every non-overlapping occurrence, left to right
Replace(s, old, new) == ReplaceFrom(s, old, new, 1)

(***************************************************************************)
(* Regular expressions (module re).  An expression is a tree; Ends gives   *)
(* every position at which a match that starts at position i can end.      *)
(* re.findall takes, at the leftmost position where a match starts, the    *)
(* match the backtracking search finds first; for the expressions of this  *)
(* program that match is the longest one (greedy repetitions, and          *)
(* alternatives ordered so that an earlier one never ends before a later   *)
(* one), with the one exception noted at Ipv6LastOctet.                    *)
(***************************************************************************)
Ch(S) == [t |-> "set", cs |-> S, rs |-> << >>, lo |-> 0, hi |-> 0]

Cat(rs) == [t |-> "cat", cs |-> {}, rs |-> rs, lo |-> 0, hi |-> 0]

Alt(rs) == [t |-> "alt", cs |-> {}, rs |-> rs, lo |-> 0, hi |-> 0]

\* r{lo,hi}; hi = -1 stands for no upper limit
Rep(r, lo, hi) == [t |-> "rep", cs |-> {}, rs |-> << r >>, lo |-> lo, hi |-> hi]

Opt(r) == Rep(r, 0, 1)

Plus(r) == Rep(r, 1, -1)

\* a literal string
Lit(s) == Cat([i \in DOMAIN s |-> Ch({ s[i] })])

RECURSIVE Ends(_, _, _)
RECURSIVE CatEnds(_, _, _, _)
RECURSIVE RepEnds(_, _, _, _, _, _)
Ends(r, s, i) ==
    CASE r.t = "set" -> IF i <= Len(s) /\ s[i] \in r.cs THEN { i + 1 } ELSE {}
      [] r.t = "cat" -> CatEnds(r.rs, 1, s, { i })
      [] r.t = "alt" -> UNION { Ends(r.rs[k], s, i) : k \in DOMAIN r.rs }
      [] r.t = "rep" ->
             IF r.rs[1].t = "set"
             THEN { j \in (i + r.lo)..(Len(s) + 1) :
                      /\ r.hi = -1 \/ j - i <= r.hi
                      /\ \A k \in i..(j - 1) : s[k] \in r.rs[1].cs }
             ELSE RepEnds(r.rs[1], s, { i }, 0, r.lo, r.hi)

CatEnds(rs, k, s, cur) ==
    IF k > Len(rs) \/ cur = {}
    THEN cur
    ELSE CatEnds(rs, k + 1, s, UNION { Ends(rs[k], s, p) : p \in cur })

RepEnds(r, s, cur, n, lo, hi) ==
    (IF n >= lo THEN cur ELSE {})
    \cup (IF cur # {} /\ (hi = -1 \/ n < hi)
          THEN RepEnds(r, s, UNION { Ends(r, s, p) : p \in cur }, n + 1, lo, hi)
          ELSE {})

\* the leftmost position from i on where a match starts, 0 when there is none
NextStart(r, s, i) ==
    IF \E j \in i..Len(s) : Ends(r, s, j) # {}
    THEN CHOOSE j \in i..Len(s) :
             /\ Ends(r, s, j) # {}
             /\ \A k \in i..(j - 1) : Ends(r, s, k) = {}
    ELSE 0

RECURSIVE FindAllFrom(_, _, _)
FindAllFrom(r, s, i) ==
    LET j == NextStart(r, s, i)
        e == Max(Ends(r, s, j))
    IN  IF j = 0
        THEN << >>
        ELSE << Slice(s, j, e - 1) >> \o FindAllFrom(r, s, IF e > j THEN e ELSE j + 1)

\* re.findall(r, s) for an expression without groups: the matches, in order
FindAll(r, s) == FindAllFrom(r, s, 1)

(***************************************************************************)
(* The expressions of regex_for_secrets and create_temp_white_list         *)
(***************************************************************************)
HTTP == << "h", "t", "t", "p" >>

COLONSLASHES == << ":", "/", "/" >>

\* 'contextPath: '
CONTEXT_PATH == << "c", "o", "n", "t", "e", "x", "t", "P", "a", "t", "h", ":", " " >>

DOT_PY == << ".", "p", "y" >>

DOT_YML == << ".", "y", "m", "l" >>

\* 'disable-secrets-detection'
DISABLE_MARKER == << "d", "i", "s", "a", "b", "l", "e", "-", "s", "e", "c", "r", "e", "t", "s", "-", "d", "e", "t", "e", "c", "t", "i", "o", "n" >>

\* [$-_]: the characters from $ to _ in ASCII order
DollarToUnderscore ==
    { "$", "%", "&", "'", "(", ")", "*", "+", ",", "-", ".", "/", ":", ";",
      "<", "=", ">", "?", "@", "[", "\\", "]", "^", "_" } \cup Digits \cup Uppers

\* http[s]?://(?:[a-zA-Z]|[0-9]|[$-_@.&+]|[!*\(\), ]|(?:%[0-9a-fA-F][0-9a-fA-F]))+
UrlRegex ==
    Cat(<< Lit(HTTP), Opt(Ch({ "s" })), Lit(COLONSLASHES),
           Plus(Alt(<< Ch(Letters),
                       Ch(Digits),
                       Ch(DollarToUnderscore \cup { "@", ".", "&", "+" }),
                       Ch({ "!", "*", "(", ")", ",", " " }),
                       Cat(<< Ch({ "%" }), Ch(HexDigits), Ch(HexDigits) >>) >>)) >>)

\* [a-zA-Z0-9_.+-]+@[a-zA-Z0-9-]+\.[a-zA-Z0-9-.]+
EmailRegex ==
    Cat(<< Plus(Ch(Letters \cup Digits \cup { "_", ".", "+", "-" })),
           Ch({ "@" }),
           Plus(Ch(Letters \cup Digits \cup { "-" })),
           Ch({ "." }),
           Plus(Ch(Letters \cup Digits \cup { "-", "." })) >>)

\* 25[0-5]|2[0-4][0-9]|[01]?[0-9][0-9]?
Ipv4Octet ==
    Alt(<< Cat(<< Ch({ "2" }), Ch({ "5" }), Ch({ "0", "1", "2", "3", "4", "5" }) >>),
           Cat(<< Ch({ "2" }), Ch({ "0", "1", "2", "3", "4" }), Ch(Digits) >>),
           Cat(<< Opt(Ch({ "0", "1" })), Ch(Digits), Opt(Ch(Digits)) >>) >>)

\* (?:(?:25[0-5]|2[0-4][0-9]|[01]?[0-9][0-9]?)\.){3}(?:25[0-5]|2[0-4][0-9]|[01]?[0-9][0-9]?)
Ipv4Regex ==
    Cat(<< Rep(Cat(<< Ipv4Octet, Ch({ "." }) >>), 3, 3), Ipv4Octet >>)

\* [0-9A-Fa-f]{1,4}
Hextet == Rep(Ch(HexDigits), 1, 4)

\* [0-9A-Fa-f]{1,4}:
HextetColon == Cat(<< Hextet, Ch({ ":" }) >>)

\* [0-9]|[1-9][0-9]|1[0-9]{2}|2[0-4][0-9]|25[0-5]
Ipv6Octet ==
    Alt(<< Ch(Digits),
           Cat(<< Ch(Digits \ { "0" }), Ch(Digits) >>),
           Cat(<< Ch({ "1" }), Ch(Digits), Ch(Digits) >>),
           Cat(<< Ch({ "2" }), Ch({ "0", "1", "2", "3", "4" }), Ch(Digits) >>),
           Cat(<< Ch({ "2" }), Ch({ "5" }), Ch({ "0", "1", "2", "3", "4", "5" }) >>) >>)

\* the same alternation where nothing follows it: every alternative starts
\* with a digit, so the first one, [0-9], is the one the search takes
Ipv6LastOctet == Ch(Digits)

\* (?:[0-9A-Fa-f]{1,4}:[0-9A-Fa-f]{1,4}|(?:(?:octet)\\.){3}(?:octet))
\* the raw string's \\. is a backslash followed by any character
Ipv6Tail ==
    Alt(<< Cat(<< Hextet, Ch({ ":" }), Hextet >>),
           Cat(<< Rep(Cat(<< Ipv6Octet, Ch({ "\\" }), Ch(AnyChar) >>), 3, 3),
                  Ipv6LastOctet >>) >>)

\* (?:(?:[0-9A-Fa-f]{1,4}:){,n}[0-9A-Fa-f]{1,4})?
Ipv6Head(n) == Opt(Cat(<< Rep(HextetColon, 0, n), Hextet >>))

DoubleColon == Cat(<< Ch({ ":" }), Ch({ ":" }) >>)

\* the nine alternatives of the IPv6 expression, in order
Ipv6Regex ==
    Alt(<< Cat(<< Rep(HextetColon, 6, 6), Ipv6Tail >>),
           Cat(<< DoubleColon, Rep(HextetColon, 5, 5), Ipv6Tail >>),
           Cat(<< Opt(Hextet), DoubleColon, Rep(HextetColon, 4, 4), Ipv6Tail >>),
           Cat(<< Opt(Cat(<< Hextet, Ch({ ":" }), Hextet >>)), DoubleColon,
                  Rep(HextetColon, 3, 3), Ipv6Tail >>),
           Cat(<< Ipv6Head(2), DoubleColon, Rep(HextetColon, 2, 2), Ipv6Tail >>),
           Cat(<< Ipv6Head(3), DoubleColon, HextetColon, Ipv6Tail >>),
           Cat(<< Ipv6Head(4), DoubleColon, Ipv6Tail >>),
           Cat(<< Ipv6Head(5), DoubleColon, Hextet >>),
           Cat(<< Ipv6Head(6), DoubleColon >>) >>)

DateSep == Ch({ "/", ".", "-" })

TwoDigits == Rep(Ch(Digits), 2, 2)

\* ((\d{4}[/.-]\d{2}[/.-]\d{2})[T\s](\d{2}:?\d{2}:?\d{2}:?(\.\d{5,6})?([+-]\d{2}:?\d{2})?Z?)?)
DateRegex ==
    Cat(<< Rep(Ch(Digits), 4, 4), DateSep, TwoDigits, DateSep, TwoDigits,
           Ch({ "T" } \cup Whitespace),
           Opt(Cat(<< TwoDigits, Opt(Ch({ ":" })), TwoDigits, Opt(Ch({ ":" })),
                      TwoDigits, Opt(Ch({ ":" })),
                      Opt(Cat(<< Ch({ "." }), Rep(Ch(Digits), 5, 6) >>)),
                      Opt(Cat(<< Ch({ "+", "-" }), TwoDigits, Opt(Ch({ ":" })),
                                 TwoDigits >>)),
                      Opt(Ch({ "Z" })) >>)) >>)

\* contextPath: (\S+\.+\S+)
ContextPathRegex ==
    Cat(<< Lit(CONTEXT_PATH), Plus(Ch(NonSpace)), Plus(Ch({ "." })),
           Plus(Ch(NonSpace)) >>)

(***************************************************************************)
(* Pure functions of the scan                                              *)
(***************************************************************************)
\* [x for x in seq if Test(x)]
Filter(seq, Test(_)) == SelectSeq(seq, Test)

\* any(white_list_string in candidate for white_list_string in white_list)
InWhiteList(candidate, white_list) == \E w \in white_list : Contains(w, candidate)

regex_for_secrets(contents) ==
    LET urls == FindAll(UrlRegex, contents)
        emails == FindAll(EmailRegex, contents)
        ipv6_list == FindAll(Ipv6Regex, contents)
        ipv4_list == FindAll(Ipv4Regex, contents)
        dates == FindAll(DateRegex, contents)
    IN  [ potential_secrets |->
              urls \o emails
              \o Filter(ipv6_list, LAMBDA ipv6 : ipv6 # << ":", ":" >>)
              \o ipv4_list,
          false_positives |-> dates ]

\* the group of a contextPath match: what follows 'contextPath: '
ContextPathGroup(match) == Slice(match, Len(CONTEXT_PATH) + 1, Len(match))

create_temp_white_list(contents) ==
    LET context_paths == FindAll(ContextPathRegex, contents)
    IN  UNION { { Lower(white_item) :
                    white_item \in Range(Split(ContextPathGroup(context_paths[k]), ".")) } :
                k \in DOMAIN context_paths }

\* round(math.log(n, 2) * 10000) for n in 1..64
LOG2_TABLE ==
    <<     0, 10000, 15850, 20000, 23219, 25850, 28074, 30000,
       31699, 33219, 34594, 35850, 37004, 38074, 39069, 40000,
       40875, 41699, 42479, 43219, 43923, 44594, 45236, 45850,
       46439, 47004, 47549, 48074, 48580, 49069, 49542, 50000,
       50444, 50875, 51293, 51699, 52095, 52479, 52854, 53219,
       53576, 53923, 54263, 54594, 54919, 55236, 55546, 55850,
       56147, 56439, 56724, 57004, 57279, 57549, 57814, 58074,
       58329, 58580, 58826, 59069, 59307, 59542, 59773, 60000 >>

\* The entropy in units of 1/10000.  With n = data.count(c) and L = len(data),
\* the sum over the printable characters of -(n/L) * log2(n/L) is
\* (sum of n * (log2 L - log2 n)) / L.
RECURSIVE EntropySum(_, _)
EntropySum(data, chars) ==
    IF chars = {}
    THEN 0
    ELSE LET c == CHOOSE x \in chars : TRUE
         IN  Count(data, c) * (LOG2_TABLE[Len(data)] - LOG2_TABLE[Count(data, c)])
             + EntropySum(data, chars \ { c })

\* the entropy of the data without their first character
EntropyOfTail(data) ==
    IF data = << >>
    THEN 0
    ELSE EntropySum(Tail(data), Range(Tail(data)) \cap Printable) \div Len(data)

calculate_shannon_entropy(data) ==
    IF data = << >>
    THEN 0
    ELSE EntropySum(data, Range(data) \cap Printable) \div Len(data)

\* 3.8 in units of 1/10000
ENTROPY_THRESHOLD == 38000

\* the characters of string_.strip("\"()[],'><:;\\")
STRIP_CHARS == { "\"", "(", ")", "[", "]", ",", "'", ">", "<", ":", ";", "\\" }

\* s.rfind(c): the last position of c in s, 0 when it has none
RFind(s, c) == Max({ 0 } \cup { i \in DOMAIN s : s[i] = c })

\* os.path.splitext(p): << root, extension >>; the leading dots of the last
\* component start no extension
Splitext(p) ==
    LET sepIndex == RFind(p, "/")
        dotIndex == RFind(p, ".")
    IN  IF dotIndex > sepIndex /\ \E k \in (sepIndex + 1)..(dotIndex - 1) : p[k] # "."
        THEN << Slice(p, 1, dotIndex - 1), Slice(p, dotIndex, Len(p)) >>
        ELSE << p, << >> >>

\* file_path.split('/')[-1]
FileName(path) == Split(path, "/")[Len(Split(path, "/"))]

\* the marker looked for at the start of the line only, as re.match would
MarkerAtLineStart(l) == MatchAt(DISABLE_MARKER, l, 1)

\* bool(re.findall(r'(disable-secrets-detection)', line))
HasDisableMarker(l) == Contains(DISABLE_MARKER, l)

\* string_.strip("\"()[],'><:;\\") for each string_ of line.split()
StrippedTokens(l) == [k \in DOMAIN SplitWs(l) |-> Strip(SplitWs(l)[k], STRIP_CHARS)]

(***************************************************************************)
(* get_diff_text_files and is_text_file                                    *)
(***************************************************************************)
\* 'secrets_white_list'
SECRETS_WHITE_LIST_FILE ==
    << "s", "e", "c", "r", "e", "t", "s", "_", "w", "h", "i", "t", "e", "_", "l", "i", "s", "t" >>

\* text_file_types
text_file_types ==
    { << ".", "y", "m", "l" >>,
      << ".", "p", "y" >>,
      << ".", "j", "s", "o", "n" >>,
      << ".", "m", "d" >>,
      << ".", "t", "x", "t" >>,
      << ".", "s", "h" >>,
      << ".", "i", "n", "i" >>,
      << ".", "e", "m", "l" >>,
      << >>,
      << ".", "c", "s", "v" >> }

is_text_file(path) == Splitext(path)[2] \in text_file_types

\* accepted_file_statuses
accepted_file_statuses == { << "M" >>, << "A" >> }

\* a character of str.upper()
UpperChar(c) ==
    IF c \in Lowers
    THEN UpperSeq[CHOOSE i \in DOMAIN LowerSeq : LowerSeq[i] = c]
    ELSE c

\* s.upper()
Upper(s) == [i \in DOMAIN s |-> UpperChar(s[i])]

\* file_name.split() for each file_name of files_string.split('\n') that
\* holds anything but whitespace
DiffFileData(files_string) ==
    LET all_files == Split(files_string, "\n")
    IN  { SplitWs(all_files[k]) :
            k \in { n \in DOMAIN all_files : SplitWs(all_files[n]) # << >> } }

\* file_data[1] of a line of one word raises IndexError
DiffIndexError(files_string) ==
    \E file_data \in DiffFileData(files_string) : Len(file_data) < 2

\* lines 718-739
get_diff_text_files(files_string) ==
    { file_data[2] :
        file_data \in
            { d \in DiffFileData(files_string) :
                /\ Upper(d[1]) \in accepted_file_statuses
                /\ is_text_file(d[2])
                /\ ~Contains(SECRETS_WHITE_LIST_FILE, d[2]) } }

(***************************************************************************)
(* The inputs of a run: the files on disk, the whitelist file and the set  *)
(* of changed files.                                                       *)
(***************************************************************************)
\* a script with a definition file beside it: 'a/s.py'
PATH_A_PY ==
    << "a", "/", "s", ".", "p", "y" >>

\* the definition file of a/s.py: 'a/s.yml'
PATH_A_YML ==
    << "a", "/", "s", ".", "y", "m", "l" >>

\* a script of the same base name with no definition file: 'b/s.py'
PATH_B_PY ==
    << "b", "/", "s", ".", "p", "y" >>

\* a file that is no script: 'b/n.md'
PATH_B_MD ==
    << "b", "/", "n", ".", "m", "d" >>

PathPool == { PATH_A_PY, PATH_A_YML, PATH_B_PY, PATH_B_MD }

\* a token of 14 different characters, entropy log2(14) = 3.807
SECRET ==
    << "a", "x", "7", "$", "Q", "z", "9", "!", "m", "P", "2", "#", "v", "L" >>

\* 'token: ax7$Qz9!mP2#vL'
TEXT_SECRET ==
    << "t", "o", "k", "e", "n", ":", " ", "a", "x", "7", "$", "Q", "z", "9",
       "!", "m", "P", "2", "#", "v", "L" >>

\* 'contextPath: Key.ax7'
TEXT_CONTEXT ==
    << "c", "o", "n", "t", "e", "x", "t", "P", "a", "t", "h", ":", " ", "K",
       "e", "y", ".", "a", "x", "7" >>

\* a timestamp of entropy 3.838
TIMESTAMP ==
    << "2", "0", "1", "3", "-", "0", "5", "-", "2", "6", "T", "0", "7", ":",
       "4", "5", ":", "4", "8", ".", "3", "1", "8", "9", "7", "6", "Z" >>

\* 'at 2013-05-26T07:45:48.318976Z'
TEXT_DATE ==
    << "a", "t", " ", "2", "0", "1", "3", "-", "0", "5", "-", "2", "6", "T",
       "0", "7", ":", "4", "5", ":", "4", "8", ".", "3", "1", "8", "9", "7",
       "6", "Z" >>

\* two lines, both carrying the disable marker:
\* 'token: ax7$Qz9!mP2#vL 10.0.0.5 # disable-secrets-detection'
\* 'contextPath: Key.ax7 # disable-secrets-detection'
TEXT_MARKED ==
    << "t", "o", "k", "e", "n", ":", " ", "a", "x", "7", "$", "Q", "z", "9",
       "!", "m", "P", "2", "#", "v", "L", " ", "1", "0", ".", "0", ".", "0",
       ".", "5", " ", "#", " ", "d", "i", "s", "a", "b", "l", "e", "-", "s",
       "e", "c", "r", "e", "t", "s", "-", "d", "e", "t", "e", "c", "t", "i",
       "o", "n", "\n", "c", "o", "n", "t", "e", "x", "t", "P", "a", "t",
       "h", ":", " ", "K", "e", "y", ".", "a", "x", "7", " ", "#", " ", "d",
       "i", "s", "a", "b", "l", "e", "-", "s", "e", "c", "r", "e", "t", "s",
       "-", "d", "e", "t", "e", "c", "t", "i", "o", "n" >>

\* a URL of entropy 3.941
URL ==
    << "h", "t", "t", "p", "s", ":", "/", "/", "e", "x", "a", "m", "p", "l",
       "e", ".", "c", "o", "m", "/", "p", "a", "t", "h", "?", "x", "=", "1" >>

\* the same line twice: 'url: https://example.com/path?x=1'
TEXT_URL ==
    << "u", "r", "l", ":", " ", "h", "t", "t", "p", "s", ":", "/", "/", "e",
       "x", "a", "m", "p", "l", "e", ".", "c", "o", "m", "/", "p", "a", "t",
       "h", "?", "x", "=", "1", "\n", "u", "r", "l", ":", " ", "h", "t", "t",
       "p", "s", ":", "/", "/", "e", "x", "a", "m", "p", "l", "e", ".", "c",
       "o", "m", "/", "p", "a", "t", "h", "?", "x", "=", "1" >>

\* a context path whose last segment is a digit of the address on the next
\* line: 'contextPath: Foo.5' and '10.0.0.5'
TEXT_CONTEXT_IP ==
    << "c", "o", "n", "t", "e", "x", "t", "P", "a", "t", "h", ":", " ", "F",
       "o", "o", ".", "5", "\n", "1", "0", ".", "0", ".", "0", ".", "5" >>

\* a URL that ends with a date literal: 'http://a.b/2013-05-26 07:45:48'
TEXT_URL_DATE ==
    << "h", "t", "t", "p", ":", "/", "/", "a", ".", "b", "/", "2", "0", "1",
       "3", "-", "0", "5", "-", "2", "6", " ", "0", "7", ":", "4", "5", ":",
       "4", "8" >>

\* a context path with an empty segment: 'contextPath: A..B'
TEXT_DOTS ==
    << "c", "o", "n", "t", "e", "x", "t", "P", "a", "t", "h", ":", " ", "A",
       ".", ".", "B" >>

\* an empty file
TEXT_EMPTY == << >>

TextPool ==
    { TEXT_SECRET, TEXT_CONTEXT, TEXT_DATE, TEXT_MARKED, TEXT_URL, TEXT_EMPTY,
      TEXT_CONTEXT_IP, TEXT_URL_DATE, TEXT_DOTS }

\* what a path holds on disk
Text(v) == [k |-> "text", v |-> v]

Undecodable == [k |-> "undecodable", v |-> << >>]

Absent == [k |-> "absent", v |-> << >>]

\* what ./Tests/secrets_white_list.json holds: nothing (the file is missing),
\* text that is no JSON, or a JSON value
WhiteListFile(k, v) == [k |-> k, v |-> v]

\* 'api.key'
ENTRY_API_KEY ==
    << "a", "p", "i", ".", "k", "e", "y" >>

\* 'Ax7'
ENTRY_AX7_MIXED ==
    << "A", "x", "7" >>

\* 'ax7'
ENTRY_AX7 ==
    << "a", "x", "7" >>

WhiteListFilePool ==
    { WhiteListFile("missing", << >>),
      WhiteListFile("invalid", << >>),
      WhiteListFile("number", << >>),
      WhiteListFile("list", << ENTRY_API_KEY >>),
      WhiteListFile("list", << ENTRY_AX7_MIXED >>),
      WhiteListFile("object", << ENTRY_AX7 >>),
      WhiteListFile("string", << ENTRY_AX7 >>) }

\* the largest number of changed files of a run
MaxFiles == 2

(***************************************************************************)
(* The functions above on the texts, lines, tokens and paths of the pools, *)
(* each computed once.                                                     *)
(***************************************************************************)
LinePool == UNION { Range(Split(t, "\n")) : t \in TextPool }

TokenPool == UNION { Range(StrippedTokens(l)) : l \in LinePool }

\* file_contents.split('\n')
LinesOfText == [t \in TextPool |-> Split(t, "\n")]

TempWhiteListOfText == [t \in TextPool |-> create_temp_white_list(t)]

DisableMarkerOnLine == [l \in LinePool |-> HasDisableMarker(l)]

RegexForSecretsOnLine == [l \in LinePool |-> regex_for_secrets(l)]

StrippedTokensOfLine == [l \in LinePool |-> StrippedTokens(l)]

LowerOfToken == [string_ \in TokenPool |-> Lower(string_)]

EntropyOfToken == [string_ \in TokenPool |-> calculate_shannon_entropy(string_)]

SplitextOfPath == [p \in PathPool |-> Splitext(p)]

FileNameOfPath == [p \in PathPool |-> FileName(p)]

(***************************************************************************)
(* State                                                                   *)
(***************************************************************************)
VARIABLES
    disk,                 \* path -> what the path holds
    white_list_file,      \* what ./Tests/secrets_white_list.json holds
    secrets_file_paths,   \* the argument of search_potential_secrets
    pc,                   \* where the run is
    error,                \* the exception that ended the run, "" for none
    secrets_white_list,
    secrets_found,        \* file name -> the list of strings reported for it
    files_left,           \* the paths the loop over the files has yet to visit
    file_path,
    yml_file_contents,    \* unbound until a .py file is visited
    file_contents,
    temp_white_list,
    lines_left,           \* the bag of the lines the loop over the lines has yet to visit
    line,
    high_entropy_strings,
    regex_secrets,
    report,               \* what validate_committed_files printed
    exit_status,          \* -1 while the process runs
    call,                 \* the function a call of its own is made of, "" for none
    call_pc,              \* where that call is
    git_diff,             \* the entries git diff --name-status reports
    changed_files_string, \* the output of git diff --name-status
    text_files_list,      \* what get_diff_text_files returned
    entropy_data,         \* the argument of calculate_shannon_entropy
    entropy,              \* what calculate_shannon_entropy returned
    instance_ips,         \* the [name, ip] pairs ./Tests/instance_ips.txt lists
    clock,                \* what time.time() reads, in seconds
    wait_pc,              \* where wait_until_server_ready.main is
    loop_start_time,
    last_update_time,
    current_time,
    instance_ips_not_created,
    instance_index,       \* the position of a loop over instance_ips
    health_sent,          \* ip -> the number of /health requests sent to it
    health_ok,            \* ip -> the number of them answered with status 200
    content_responses,    \* the answers to /content/installed/, in order
    content_ok,           \* what is_correct_content_installed did
    wait_exit_status      \* -1 while the process runs

vars ==
    << disk, white_list_file, secrets_file_paths, pc, error, secrets_white_list,
       secrets_found, files_left, file_path, yml_file_contents, file_contents,
       temp_white_list, lines_left, line, high_entropy_strings, regex_secrets,
       report, exit_status, call, call_pc, git_diff, changed_files_string,
       text_files_list, entropy_data, entropy, instance_ips, clock, wait_pc,
       loop_start_time, last_update_time, current_time, instance_ips_not_created,
       instance_index, health_sent, health_ok, content_responses, content_ok,
       wait_exit_status >>

\* the state of a call of one function on its own
call_vars ==
    << call, call_pc, git_diff, changed_files_string, text_files_list,
       entropy_data, entropy >>

\* the state of a run of validate_committed_files
run_vars ==
    << disk, white_list_file, secrets_file_paths, pc, error, secrets_white_list,
       secrets_found, files_left, file_path, yml_file_contents, file_contents,
       temp_white_list, lines_left, line, high_entropy_strings, regex_secrets,
       report, exit_status >>

inputs == << disk, white_list_file, secrets_file_paths >>

file_locals ==
    << file_path, yml_file_contents, file_contents, temp_white_list, lines_left,
       line, high_entropy_strings, regex_secrets >>

\* a local variable no assignment has reached yet
Unbound == [k |-> "unbound", v |-> << >>]

None == [k |-> "none", v |-> << >>]

\* the empty dict
EmptyDict == [n \in {} |-> << >>]

\* yml_file = file_path_temp + '.yml'
YmlPath(file_path_temp) == file_path_temp \o DOT_YML

\* what a path holds; a path outside the pool does not exist
OnDisk(path) == IF path \in DOMAIN disk THEN disk[path] ELSE Absent

\* the paths of a run whose definition file is looked for
Siblings(paths) ==
    { YmlPath(SplitextOfPath[p][1]) :
        p \in { q \in paths : SplitextOfPath[q][2] = DOT_PY } }

\* what a definition file that is not itself a changed file may hold
UnchangedYmlPool == { Text(TEXT_CONTEXT), Text(TEXT_EMPTY), Undecodable, Absent }

\* the state of a run of wait_until_server_ready.main
wait_vars ==
    << instance_ips, clock, wait_pc, loop_start_time, last_update_time,
       current_time, instance_ips_not_created, instance_index, health_sent,
       health_ok, content_responses, content_ok, wait_exit_status >>

\* wait_until_server_ready.main does not start
WaitIdle ==
    /\ instance_ips = << >>
    /\ clock = 0
    /\ wait_pc = "idle"
    /\ loop_start_time = 0
    /\ last_update_time = 0
    /\ current_time = 0
    /\ instance_ips_not_created = << >>
    /\ instance_index = 0
    /\ health_sent = << >>
    /\ health_ok = << >>
    /\ content_responses = << >>
    /\ content_ok = "not called"
    /\ wait_exit_status = -1

\* no function is called on its own
CallIdle ==
    /\ call = ""
    /\ call_pc = "idle"
    /\ git_diff = << >>
    /\ changed_files_string = << >>
    /\ text_files_list = {}
    /\ entropy_data = << >>
    /\ entropy = 0

\* A changed file exists (git reports it added or modified); of the other
\* paths only the definition files the run looks for matter.
Init ==
    /\ CallIdle
    /\ WaitIdle
    /\ white_list_file \in WhiteListFilePool
    /\ secrets_file_paths \in { S \in SUBSET PathPool : Cardinality(S) <= MaxFiles }
    /\ disk \in [PathPool -> { Text(t) : t \in TextPool } \cup { Undecodable, Absent }]
    /\ \A p \in secrets_file_paths : disk[p] # Absent
    /\ \A p \in (Siblings(secrets_file_paths) \cap PathPool) \ secrets_file_paths :
           disk[p] \in UnchangedYmlPool
    /\ \A p \in PathPool \ (secrets_file_paths \cup Siblings(secrets_file_paths)) :
           disk[p] = Absent
    /\ pc = "start"
    /\ error = ""
    /\ secrets_white_list = {}
    /\ secrets_found = EmptyDict
    /\ files_left = {}
    /\ file_path = << >>
    /\ yml_file_contents = Unbound
    /\ file_contents = << >>
    /\ temp_white_list = {}
    /\ lines_left = EmptyBag
    /\ line = << >>
    /\ high_entropy_strings = << >>
    /\ regex_secrets = << >>
    /\ report = EmptyDict
    /\ exit_status = -1

\* an uncaught exception ends the process with a traceback and status 1
Raise(exception) ==
    /\ pc' = "raised"
    /\ error' = exception
    /\ exit_status' = 1

(***************************************************************************)
(* search_potential_secrets                                                *)
(***************************************************************************)
\* io.open + json.load + set(...): the exception raised, "" for none
LoadError(f) ==
    CASE f.k = "missing" -> "IOError"
      [] f.k = "invalid" -> "ValueError"
      [] f.k = "number" -> "TypeError"
      [] OTHER -> ""

\* set(json.load(file)): the elements of a list, the keys of an object, the
\* characters of a string
LoadedWhiteList(f) ==
    CASE f.k = "list" -> Range(f.v)
      [] f.k = "object" -> Range(f.v)
      [] f.k = "string" -> { << c >> : c \in Range(f.v[1]) }
      [] OTHER -> {}

\* lines 764-768
LoadWhiteList ==
    /\ pc = "start"
    /\ IF LoadError(white_list_file) # ""
       THEN /\ Raise(LoadError(white_list_file))
            /\ UNCHANGED << secrets_white_list, secrets_found, files_left >>
       ELSE /\ secrets_white_list' = LoadedWhiteList(white_list_file)
            /\ secrets_found' = EmptyDict
            /\ files_left' = secrets_file_paths
            /\ pc' = "files"
            /\ UNCHANGED << error, exit_status >>
    /\ UNCHANGED << wait_vars, call_vars, inputs, file_locals, report >>

\* the lines of a list, each as often as the list holds it
ListOfLines(lines) ==
    [l \in Range(lines) |-> Cardinality({ i \in DOMAIN lines : lines[i] = l })]

\* set(file_contents.split('\n')): each line of the list once
SetOfLines(lines) == SetToBag(Range(lines))

\* [k |-> "raise"] when the definition file cannot be decoded
retrieve_related_yml(file_path_temp) ==
    LET yml_file == YmlPath(file_path_temp)
    IN  IF OnDisk(yml_file) = Absent
        THEN None
        ELSE IF OnDisk(yml_file) = Undecodable
             THEN [k |-> "raise", v |-> << >>]
             ELSE OnDisk(yml_file)

\* the value of yml_file_contents after lines 776-778
YmlAfterLookup(path, before) ==
    IF SplitextOfPath[path][2] = DOT_PY
    THEN retrieve_related_yml(SplitextOfPath[path][1])
    ELSE before

\* yml_file_contents if yml_file_contents else file_contents
ContextSource(yml, contents) ==
    IF yml.k = "text" /\ yml.v # << >> THEN yml.v ELSE contents

\* lines 776-786 with a file that cannot be decoded read as an empty one
BeginFileErrorIgnoringDecoding(path, yml) ==
    IF yml.k = "raise" THEN "UnicodeDecodeError"
    ELSE IF OnDisk(path) = Absent THEN "IOError"
    ELSE IF yml = Unbound THEN "UnboundLocalError"
    ELSE ""

\* the exception lines 776-786 raise for a path, "" for none
BeginFileError(path, yml) ==
    IF yml.k = "raise" THEN "UnicodeDecodeError"
    ELSE IF OnDisk(path) = Absent THEN "IOError"
    ELSE IF OnDisk(path) = Undecodable THEN "UnicodeDecodeError"
    ELSE IF yml = Unbound THEN "UnboundLocalError"
    ELSE ""

\* lines 770-789: the next file of the loop, up to the first line
BeginFile ==
    /\ pc = "files"
    /\ files_left # {}
    /\ \E path \in files_left :
         LET yml == YmlAfterLookup(path, yml_file_contents)
         IN  /\ file_path' = path
             /\ files_left' = files_left \ { path }
             /\ high_entropy_strings' = << >>
             /\ regex_secrets' = << >>
             /\ IF BeginFileError(path, yml) # ""
                THEN /\ Raise(BeginFileError(path, yml))
                     /\ yml_file_contents' =
                            IF yml.k = "raise" THEN yml_file_contents ELSE yml
                     /\ UNCHANGED << file_contents, temp_white_list,
                                     secrets_white_list, lines_left >>
                ELSE /\ yml_file_contents' = yml
                     /\ file_contents' = OnDisk(path).v
                     /\ temp_white_list' =
                            TempWhiteListOfText[ContextSource(yml, OnDisk(path).v)]
                     /\ secrets_white_list' =
                            secrets_white_list
                            \cup TempWhiteListOfText[ContextSource(yml, OnDisk(path).v)]
                     /\ lines_left' = SetOfLines(LinesOfText[OnDisk(path).v])
                     /\ pc' = "lines"
                     /\ UNCHANGED << error, exit_status >>
    /\ UNCHANGED << wait_vars, call_vars, inputs, secrets_found, line, report >>

\* lines 797-800: the pattern candidates of a line no whitelist entry is in
RegexSecretsOf(l, white_list) ==
    Filter(RegexForSecretsOnLine[l].potential_secrets,
           LAMBDA potential_secret : ~InWhiteList(potential_secret, white_list))

\* the whitelist after line 802
WithFalsePositives(white_list, l) ==
    white_list \cup Range(RegexForSecretsOnLine[l].false_positives)

\* lines 805-812: the tokens of a line kept as high entropy strings
HighEntropyOf(l, white_list) ==
    Filter(StrippedTokensOfLine[l],
           LAMBDA string_ :
               /\ ~InWhiteList(LowerOfToken[string_], white_list)
               /\ EntropyOfToken[string_] >= ENTROPY_THRESHOLD)

\* lines 789-812: one pass of the loop over set(file_contents.split('\n')),
\* whose order of iteration is the set's
ScanLine ==
    /\ pc = "lines"
    /\ lines_left # EmptyBag
    /\ \E l \in BagToSet(lines_left) :
         /\ line' = l
         /\ lines_left' = lines_left (-) SetToBag({ l })
         /\ IF DisableMarkerOnLine[l]
            THEN /\ file_contents' = Replace(file_contents, l, << >>)
                 /\ UNCHANGED << regex_secrets, secrets_white_list,
                                 high_entropy_strings >>
            ELSE /\ regex_secrets' =
                        regex_secrets \o RegexSecretsOf(l, secrets_white_list)
                 /\ secrets_white_list' = WithFalsePositives(secrets_white_list, l)
                 /\ high_entropy_strings' =
                        high_entropy_strings
                        \o HighEntropyOf(l, WithFalsePositives(secrets_white_list, l))
                 /\ UNCHANGED file_contents
    /\ UNCHANGED << wait_vars, call_vars, inputs, pc, error, secrets_found, files_left, file_path,
                    yml_file_contents, temp_white_list, report, exit_status >>

\* secrets_found[file_name] = file_secrets
SetItem(dict, key, value) == [n \in DOMAIN dict \cup { key } |->
                                 IF n = key THEN value ELSE dict[n]]

\* a file recorded whether or not anything was found in it
Always(entropy_list, regex_list) == TRUE

\* if high_entropy_strings or regex_secrets
HasSecrets(entropy_list, regex_list) ==
    entropy_list # << >> \/ regex_list # << >>

\* the list as it is, every occurrence kept
AsIs(strings) == { strings }

\* list(set(...)): a list that holds each string once, in the set's order,
\* which may be any
Uniquify(strings) ==
    { seq \in [1..Cardinality(Range(strings)) -> Range(strings)] :
        Range(seq) = Range(strings) }

\* lines 814-817, after the last line of a file
EndFile ==
    /\ pc = "lines"
    /\ lines_left = EmptyBag
    /\ IF HasSecrets(high_entropy_strings, regex_secrets)
       THEN \E file_secrets \in Uniquify(high_entropy_strings \o regex_secrets) :
                secrets_found' =
                    SetItem(secrets_found, FileNameOfPath[file_path], file_secrets)
       ELSE secrets_found' = secrets_found
    /\ pc' = "files"
    /\ UNCHANGED << wait_vars, call_vars, inputs, error, secrets_white_list, files_left, file_locals,
                    report, exit_status >>

\* line 819
Return ==
    /\ pc = "files"
    /\ files_left = {}
    /\ pc' = "returned"
    /\ UNCHANGED << wait_vars, call_vars, inputs, error, secrets_white_list, secrets_found, files_left,
                    file_locals, report, exit_status >>

(***************************************************************************)
(* validate_committed_files                                                *)
(***************************************************************************)
\* lines 480-490: secrets were found
ReportSecrets ==
    /\ pc = "returned"
    /\ secrets_found # EmptyDict
    /\ report' = secrets_found
    /\ exit_status' = 1
    /\ pc' = "exited"
    /\ UNCHANGED << wait_vars, call_vars, inputs, error, secrets_white_list, secrets_found, files_left,
                    file_locals >>

\* the validation of the files starts whatever the scan found
ValidateDespiteSecrets ==
    /\ pc = "returned"
    /\ pc' = "validating"
    /\ UNCHANGED << wait_vars, call_vars, inputs, error, secrets_white_list, secrets_found, files_left,
                    file_locals, report, exit_status >>

\* lines 480, 492: no secret was found, the validation of the files starts
StartValidation ==
    /\ pc = "returned"
    /\ secrets_found = EmptyDict
    /\ pc' = "validating"
    /\ UNCHANGED << wait_vars, call_vars, inputs, error, secrets_white_list, secrets_found, files_left,
                    file_locals, report, exit_status >>

\* lines 492-508 and main: the validation, which this model leaves open, finds
\* a problem (status 1) or none (status 0)
FinishValidation ==
    /\ pc = "validating"
    /\ \E has_schema_problem \in BOOLEAN :
           exit_status' = IF has_schema_problem THEN 1 ELSE 0
    /\ pc' = "exited"
    /\ UNCHANGED << wait_vars, call_vars, inputs, error, secrets_white_list, secrets_found, files_left,
                    file_locals, report >>

Next ==
    \/ LoadWhiteList
    \/ BeginFile
    \/ ScanLine
    \/ EndFile
    \/ Return
    \/ ReportSecrets
    \/ StartValidation
    \/ FinishValidation

Spec == Init /\ [][Next]_vars

(***************************************************************************)
(* Calls of get_diff_text_files and calculate_shannon_entropy on their own *)
(***************************************************************************)
\* 'a/s.py', 'x.png', 'a b.py' (a space in the name),
\* 'Tests/secrets_white_list.json' and 'README' (no extension)
DiffPathPool ==
    { PATH_A_PY,
      << "x", ".", "p", "n", "g" >>,
      << "a", " ", "b", ".", "p", "y" >>,
      << "T", "e", "s", "t", "s", "/", "s", "e", "c", "r", "e", "t", "s", "_",
         "w", "h", "i", "t", "e", "_", "l", "i", "s", "t", ".", "j", "s", "o", "n" >>,
      << "R", "E", "A", "D", "M", "E" >> }

\* modified, added, deleted, type changed
DiffStatusPool == { << "M" >>, << "A" >>, << "D" >>, << "T" >> }

\* the largest number of entries of a diff
MaxDiffLines == 2

\* the diffs of at most MaxDiffLines entries, a path in one entry at most
DiffPool ==
    { d \in UNION { [1..n -> [status : DiffStatusPool, path : DiffPathPool]] :
                      n \in 0..MaxDiffLines } :
        \A i, j \in DOMAIN d : i # j => d[i].path # d[j].path }

\* what git diff --name-status prints: a line 'status<TAB>path' an entry
RECURSIVE NameStatus(_)
NameStatus(d) ==
    IF d = << >>
    THEN << >>
    ELSE Head(d).status \o << "\t" >> \o Head(d).path \o << "\n" >>
         \o NameStatus(Tail(d))

\* the longest argument of calculate_shannon_entropy
MaxDataLen == 4

\* the strings of at most MaxDataLen characters out of three
DataPool == UNION { [1..n -> { "a", "b", "c" }] : n \in 0..MaxDataLen }

\* the run of validate_committed_files does not start
RunIdle ==
    /\ white_list_file = WhiteListFile("missing", << >>)
    /\ secrets_file_paths = {}
    /\ disk = [p \in PathPool |-> Absent]
    /\ pc = "idle"
    /\ error = ""
    /\ secrets_white_list = {}
    /\ secrets_found = EmptyDict
    /\ files_left = {}
    /\ file_path = << >>
    /\ yml_file_contents = Unbound
    /\ file_contents = << >>
    /\ temp_white_list = {}
    /\ lines_left = EmptyBag
    /\ line = << >>
    /\ high_entropy_strings = << >>
    /\ regex_secrets = << >>
    /\ report = EmptyDict
    /\ exit_status = -1

CallInit ==
    /\ RunIdle
    /\ WaitIdle
    /\ call_pc = "called"
    /\ text_files_list = {}
    /\ entropy = 0
    /\ \/ /\ call = "get_diff_text_files"
          /\ git_diff \in DiffPool
          /\ changed_files_string = NameStatus(git_diff)
          /\ entropy_data = << >>
       \/ /\ call = "calculate_shannon_entropy"
          /\ entropy_data \in DataPool
          /\ git_diff = << >>
          /\ changed_files_string = << >>

\* lines 750 and 754: text_files_list = get_diff_text_files(...)
CallGetDiffTextFiles ==
    /\ call = "get_diff_text_files"
    /\ call_pc = "called"
    /\ IF DiffIndexError(changed_files_string)
       THEN /\ call_pc' = "raised"
            /\ UNCHANGED text_files_list
       ELSE /\ call_pc' = "returned"
            /\ text_files_list' = get_diff_text_files(changed_files_string)
    /\ UNCHANGED << wait_vars, run_vars, call, git_diff, changed_files_string,
                    entropy_data, entropy >>

\* line 811: entropy = calculate_shannon_entropy(string_)
CallCalculateShannonEntropy ==
    /\ call = "calculate_shannon_entropy"
    /\ call_pc = "called"
    /\ call_pc' = "returned"
    /\ entropy' = calculate_shannon_entropy(entropy_data)
    /\ UNCHANGED << wait_vars, run_vars, call, git_diff, changed_files_string,
                    text_files_list, entropy_data >>

CallNext ==
    \/ CallGetDiffTextFiles
    \/ CallCalculateShannonEntropy

CallSpec == CallInit /\ [][CallNext]_vars

(***************************************************************************)
(* wait_until_server_ready.main                                            *)
(***************************************************************************)
\* the most instances ./Tests/instance_ips.txt lists
MaxInstances == 2

\* line 118: the i-th line of the file, name:ip; every instance has an
\* address of its own
InstanceOf(i) == << "Demisto", << 10, 0, 0, i >> >>

\* what the file may list
InstanceIpsPool == { [i \in 1..n |-> InstanceOf(i)] : n \in 0..MaxInstances }

\* the addresses of a list of [name, ip] pairs
IpsOf(ips) == { ips[i][2] : i \in DOMAIN ips }

\* the seconds between two readings of time.time(); sleep(1) makes them
\* at least one, the requests of a pass may take any time
ElapsedPool == { 600, 900 }

\* the status codes /health answers with
StatusCodePool == { 200, 503 }

\* the version --contentVersion asks for
content_version == << "4", ".", "5" >>

\* what the request of /content/installed/ comes to: k is "dict" for a body
\* that reads as a dict, "list" for a body that reads as another literal,
\* "ApiException" for a request that raised it, "ValueError" and
\* "SyntaxError" for a body ast.literal_eval rejects with that exception
Response(k, release, notes, installed) ==
    [k |-> k, release |-> release, releaseNotes |-> notes, installed |-> installed]

\* a key the dict lacks reads as None; installed is True or falsy
ResponsePool ==
    LET RELEASE == Text(<< "4", ".", "5", ".", "0" >>)
        NOTES == Text(<< "n" >>)
    IN  { Response("dict", RELEASE, NOTES, TRUE),
          Response("dict", Text(<< "4", ".", "1" >>), NOTES, TRUE),
          Response("dict", None, NOTES, TRUE),
          Response("dict", RELEASE, Text(<< >>), TRUE),
          Response("dict", RELEASE, NOTES, FALSE),
          Response("list", None, None, FALSE),
          Response("ApiException", None, None, FALSE),
          Response("ValueError", None, None, FALSE),
          Response("SyntaxError", None, None, FALSE) }

\* the truth value of a string or None
Truthy(value) == value # None /\ value.v # << >>

\* line 75: release and content_version in release and notes and installed
ContentVerified(resp_json) ==
    /\ Truthy(resp_json.release)
    /\ Contains(content_version, resp_json.release.v)
    /\ Truthy(resp_json.releaseNotes)
    /\ resp_json.installed

\* the timeout of the loop, in seconds
half_hour_in_seconds == 30 * 60

\* the loop is timed out from half an hour on
TimedOutAtHalfHour(start_time, time_read) ==
    time_read - start_time >= half_hour_in_seconds

\* lines 96-98: time_since_started > half_hour_in_seconds
TimedOut(start_time, time_read) ==
    time_read - start_time > half_hour_in_seconds

\* list.remove(x): the list without its first x
ListRemove(list, x) ==
    LET at == CHOOSE i \in DOMAIN list :
                  list[i] = x /\ \A j \in 1..(i - 1) : list[j] # x
    IN  SubSeq(list, 1, at - 1) \o SubSeq(list, at + 1, Len(list))

WaitInit ==
    /\ RunIdle
    /\ CallIdle
    /\ instance_ips \in InstanceIpsPool
    /\ clock = 0
    /\ wait_pc = "start"
    /\ loop_start_time = 0
    /\ last_update_time = 0
    /\ current_time = 0
    /\ instance_ips_not_created = << >>
    /\ instance_index = 0
    /\ health_sent = [ip \in IpsOf(instance_ips) |-> 0]
    /\ health_ok = [ip \in IpsOf(instance_ips) |-> 0]
    /\ content_responses = << >>
    /\ content_ok = "not called"
    /\ wait_exit_status = -1

\* lines 121-123
StartLoop ==
    /\ wait_pc = "start"
    /\ loop_start_time' = clock
    /\ last_update_time' = clock
    /\ instance_ips_not_created' = [i \in DOMAIN instance_ips |-> instance_ips[i][2]]
    /\ wait_pc' = "while"
    /\ UNCHANGED << run_vars, call_vars, instance_ips, clock, current_time,
                    instance_index, health_sent, health_ok, content_responses,
                    content_ok, wait_exit_status >>

\* lines 125-127: a pass of the loop begins, or the process exits timed out
BeginPass ==
    /\ wait_pc = "while"
    /\ Len(instance_ips_not_created) > 0
    /\ current_time' = clock
    /\ IF TimedOut(loop_start_time, clock)
       THEN /\ wait_pc' = "exited"
            /\ wait_exit_status' = 1
            /\ UNCHANGED instance_index
       ELSE /\ wait_pc' = "for"
            /\ instance_index' = 1
            /\ UNCHANGED wait_exit_status
    /\ UNCHANGED << run_vars, call_vars, instance_ips, clock, loop_start_time,
                    last_update_time, instance_ips_not_created, health_sent,
                    health_ok, content_responses, content_ok >>

\* lines 129-141: the pass comes to one instance and asks for its health if
\* the instance is still pending
PollInstance ==
    /\ wait_pc = "for"
    /\ instance_index <= Len(instance_ips)
    /\ LET ami_instance_ip == instance_ips[instance_index][2]
       IN  IF ami_instance_ip \in Range(instance_ips_not_created)
           THEN \E status_code \in StatusCodePool :
                    /\ health_sent' =
                           [health_sent EXCEPT ![ami_instance_ip] = @ + 1]
                    /\ IF status_code = 200
                       THEN /\ health_ok' =
                                   [health_ok EXCEPT ![ami_instance_ip] = @ + 1]
                            /\ instance_ips_not_created' =
                                   ListRemove(instance_ips_not_created, ami_instance_ip)
                       ELSE UNCHANGED << health_ok, instance_ips_not_created >>
           ELSE UNCHANGED << health_sent, health_ok, instance_ips_not_created >>
    /\ instance_index' = instance_index + 1
    /\ UNCHANGED << run_vars, call_vars, instance_ips, clock, wait_pc,
                    loop_start_time, last_update_time, current_time,
                    content_responses, content_ok, wait_exit_status >>

\* lines 143-146: the pass ends; ready_ami_list stays empty, so the process
\* sleeps, and the next reading of the time is later
EndPass ==
    /\ wait_pc = "for"
    /\ instance_index > Len(instance_ips)
    /\ last_update_time' = IF current_time - last_update_time > 30
                           THEN current_time
                           ELSE last_update_time
    /\ \E elapsed \in ElapsedPool : clock' = clock + elapsed
    /\ wait_pc' = "while"
    /\ UNCHANGED << run_vars, call_vars, instance_ips, loop_start_time,
                    current_time, instance_ips_not_created, instance_index,
                    health_sent, health_ok, content_responses, content_ok,
                    wait_exit_status >>

\* lines 125 and 148: the loop ends, is_correct_content_installed is called
EndLoop ==
    /\ wait_pc = "while"
    /\ Len(instance_ips_not_created) = 0
    /\ wait_pc' = "verify"
    /\ instance_index' = 1
    /\ UNCHANGED << run_vars, call_vars, instance_ips, clock, loop_start_time,
                    last_update_time, current_time, instance_ips_not_created,
                    health_sent, health_ok, content_responses, content_ok,
                    wait_exit_status >>

\* lines 56-90 and 149: is_correct_content_installed comes to one instance.
\* ApiException is caught and leaves resp_json None, which like any other
\* non-dict raises the ValueError that the function catches, as it catches
\* the ValueError of ast.literal_eval; a SyntaxError of ast.literal_eval is
\* caught nowhere and ends the process with a traceback.
VerifyInstance ==
    /\ wait_pc = "verify"
    /\ instance_index <= Len(instance_ips)
    /\ \E resp \in ResponsePool :
           /\ content_responses' = Append(content_responses, resp)
           /\ IF resp.k = "SyntaxError"
              THEN /\ content_ok' = "raised"
                   /\ wait_pc' = "exited"
                   /\ wait_exit_status' = 1
                   /\ UNCHANGED instance_index
              ELSE IF resp.k = "dict" /\ ContentVerified(resp)
              THEN /\ instance_index' = instance_index + 1
                   /\ UNCHANGED << content_ok, wait_pc, wait_exit_status >>
              ELSE /\ content_ok' = "False"
                   /\ wait_pc' = "exited"
                   /\ wait_exit_status' = 1
                   /\ UNCHANGED instance_index
    /\ UNCHANGED << run_vars, call_vars, instance_ips, clock, loop_start_time,
                    last_update_time, current_time, instance_ips_not_created,
                    health_sent, health_ok >>

\* lines 91-92 and 148: every instance is verified, main returns
ReturnTrue ==
    /\ wait_pc = "verify"
    /\ instance_index > Len(instance_ips)
    /\ content_ok' = "True"
    /\ wait_pc' = "exited"
    /\ wait_exit_status' = 0
    /\ UNCHANGED << run_vars, call_vars, instance_ips, clock, loop_start_time,
                    last_update_time, current_time, instance_ips_not_created,
                    instance_index, health_sent, health_ok, content_responses >>

WaitNext ==
    \/ StartLoop
    \/ BeginPass
    \/ PollInstance
    \/ EndPass
    \/ EndLoop
    \/ VerifyInstance
    \/ ReturnTrue

\* every health request returns and the process keeps running: a step that
\* can be taken is taken
WaitSpec == WaitInit /\ [][WaitNext]_vars /\ WF_vars(WaitNext)

(***************************************************************************)
(* Properties of search_potential_secrets and validate_committed_files     *)
(***************************************************************************)
\* the scan of file_path has read none of the file's lines yet
ScanStarts ==
    /\ pc = "lines"
    /\ BagToSet(lines_left) = Range(LinesOfText[OnDisk(file_path).v])

\* the contextual entries the texts of the run's files hold
ContextualEntriesOfRun ==
    UNION { TempWhiteListOfText[disk[p].v] :
              p \in { q \in PathPool : disk[q].k = "text" } }

\* the lines of a file that carry no disable marker
UnmarkedLines(path) ==
    { l \in Range(LinesOfText[OnDisk(path).v]) : ~Contains(DISABLE_MARKER, l) }

\* the date literals regex_for_secrets recognises on a set of lines
FalsePositivesOn(lines) ==
    UNION { Range(RegexForSecretsOnLine[l].false_positives) : l \in lines }

\* C1: when the scan of a file starts, the contextual entries in the
\* effective whitelist are those of the persistent whitelist and of the
\* file's own contextual whitelist only; no other file's entries are there.
C1_ContextualEntriesPerFile ==
    ScanStarts =>
        secrets_white_list \cap ContextualEntriesOfRun
            \subseteq LoadedWhiteList(white_list_file) \cup temp_white_list

\* C2: while a file is scanned, the date literals recognised in any other
\* file of the run are not in the effective whitelist, unless the persistent
\* whitelist, the file's contextual whitelist or the file's own lines hold
\* them.
C2_ExemptionsPerFile ==
    pc = "lines" =>
        \A p \in secrets_file_paths \ { file_path } :
            secrets_white_list \cap FalsePositivesOn(UnmarkedLines(p))
                \subseteq LoadedWhiteList(white_list_file) \cup temp_white_list
                          \cup FalsePositivesOn(UnmarkedLines(file_path))

\* C3: no reported string has an entry of the whitelist file as a substring
\* under case-insensitive comparison.
C3_WhitelistedNeverReported ==
    \A n \in DOMAIN secrets_found :
        \A t \in Range(secrets_found[n]) :
            ~\E w \in LoadedWhiteList(white_list_file) :
                Contains(Lower(w), Lower(t))

\* C4: the findings recorded for a file stay in the result when the scan of
\* a later file ends, and a run that ends with findings exits with status 1
\* and reports all of them.
C4_EveryOffendingFileReported ==
    [][ /\ (pc = "lines" /\ pc' = "files") =>
              \A n \in DOMAIN secrets_found :
                  /\ n \in DOMAIN secrets_found'
                  /\ Range(secrets_found[n]) \subseteq Range(secrets_found'[n])
        /\ (pc' = "exited" /\ secrets_found' # EmptyDict) =>
              /\ exit_status' = 1
              /\ report' = secrets_found' ]_vars

\* C5: a run with a changed file that cannot be decoded returns no scan
\* result and never exits with status 0; once the loop reaches that file the
\* run has ended with an exception and status 1, and no file is scanned
\* after it.
C5_UndecodableFileAborts ==
    /\ (\E p \in secrets_file_paths : disk[p] = Undecodable) =>
           /\ pc \notin { "returned", "validating", "exited" }
           /\ exit_status # 0
           /\ report = EmptyDict
    /\ (file_path # << >> /\ OnDisk(file_path) = Undecodable) =>
           /\ pc = "raised"
           /\ error = "UnicodeDecodeError"
           /\ exit_status = 1
    /\ pc \in { "files", "lines" } =>
           \A p \in secrets_file_paths \ files_left : disk[p] # Undecodable

\* a run ended by an undecodable file with files still to scan
C5_Witness ==
    /\ pc = "raised"
    /\ error = "UnicodeDecodeError"
    /\ file_path # << >>
    /\ OnDisk(file_path) = Undecodable
    /\ files_left # {}

\* the text the contextual whitelist of a file is to come from: the text of
\* the definition file beside a .py file when there is one (an empty one
\* counts as none), the file's own text otherwise
PairedSource(path) ==
    LET yml_file == YmlPath(SplitextOfPath[path][1])
    IN  IF /\ SplitextOfPath[path][2] = DOT_PY
           /\ OnDisk(yml_file).k = "text"
           /\ OnDisk(yml_file).v # << >>
        THEN OnDisk(yml_file).v
        ELSE OnDisk(path).v

\* the contextual entries of the lines of a text that carry no disable marker
UnmarkedContextualEntries(contents) ==
    UNION { create_temp_white_list(l) :
              l \in { m \in Range(LinesOfText[contents]) :
                        ~Contains(DISABLE_MARKER, m) } }

\* C6: unless the whitelist file holds a list, the run stays at its start
\* or ends with an exception there: no changed file is ever read.
C6_WhitelistLoadFailsFatally ==
    white_list_file.k # "list" =>
        /\ pc \in { "start", "raised" }
        /\ file_path = << >>
        /\ secrets_white_list = {}

\* C7: the pass of the loop over a line that contains the disable marker adds
\* no pattern candidate, no high entropy string and no date literal.
C7_MarkedLineNotClassified ==
    [][ ( /\ pc = "lines"
          /\ pc' = "lines"
          /\ lines_left' # lines_left
          /\ Contains(DISABLE_MARKER, line') ) =>
            /\ regex_secrets' = regex_secrets
            /\ high_entropy_strings' = high_entropy_strings
            /\ secrets_white_list' = secrets_white_list ]_vars

\* a marked line that holds a high entropy string and an address has been
\* passed, and nothing is recorded for the file
C7_Witness ==
    /\ pc = "lines"
    /\ OnDisk(file_path).v = TEXT_MARKED
    /\ line \in Range(LinesOfText[TEXT_MARKED]) \ BagToSet(lines_left)
    /\ Contains(DISABLE_MARKER, line)
    /\ Contains(SECRET, line)
    /\ ~InWhiteList(Lower(SECRET), secrets_white_list)
    /\ calculate_shannon_entropy(SECRET) >= ENTROPY_THRESHOLD
    /\ regex_for_secrets(line).potential_secrets # << >>
    /\ high_entropy_strings = << >>
    /\ regex_secrets = << >>

\* C8: the contextual whitelist of a file holds only entries of lines that
\* carry no disable marker, in the text it was extracted from.
C8_MarkedLineNoContextPath ==
    pc = "lines" =>
        temp_white_list
            \subseteq UnmarkedContextualEntries(
                          ContextSource(yml_file_contents, OnDisk(file_path).v))

\* C9: no date literal recognised on a line of the file that has been passed
\* is among the file's high entropy strings.
C9_DateLiteralNotReported ==
    pc = "lines" =>
        Range(high_entropy_strings)
            \cap FalsePositivesOn((Range(LinesOfText[OnDisk(file_path).v])
                                     \ BagToSet(lines_left))
                                  \cap UnmarkedLines(file_path)) = {}

\* C10: the contextual whitelist of every scanned file is the one of the
\* definition file beside it when the file is a .py file that has one, of
\* the file's own text otherwise; and no run ends because a file has no
\* definition file.
C10_ContextualSource ==
    /\ pc = "lines" =>
           temp_white_list = TempWhiteListOfText[PairedSource(file_path)]
    /\ error # "UnboundLocalError"

\* the finding sets lines 789-812 yield for a set of lines still to visit,
\* over every order of visiting them
RECURSIVE FindingSetsFrom(_, _, _)
FindingSetsFrom(lines, white_list, found) ==
    IF lines = {}
    THEN { found }
    ELSE UNION { IF DisableMarkerOnLine[l]
                 THEN FindingSetsFrom(lines \ { l }, white_list, found)
                 ELSE FindingSetsFrom(
                          lines \ { l },
                          WithFalsePositives(white_list, l),
                          found \cup Range(RegexSecretsOf(l, white_list))
                                \cup Range(HighEntropyOf(
                                         l, WithFalsePositives(white_list, l)))) :
                 l \in lines }

\* the finding sets of a scan of a file that no scan of another file precedes
FindingSetsAlone(path) ==
    FindingSetsFrom(Range(LinesOfText[OnDisk(path).v]),
                    LoadedWhiteList(white_list_file)
                        \cup TempWhiteListOfText[PairedSource(path)],
                    {})

\* C11: the finding set a scan of a file ends with is one a scan of the same
\* file with the same persistent whitelist yields when no other file was
\* scanned before it.
C11_SameFindingsInAnyScan ==
    (pc = "lines" /\ lines_left = EmptyBag) =>
        Range(high_entropy_strings \o regex_secrets) \in FindingSetsAlone(file_path)

\* the strings of a list are all different
NoDuplicates(strings) ==
    \A i, j \in DOMAIN strings : i # j => strings[i] # strings[j]

\* C12: the end of a file's scan records nothing when nothing was found in
\* the file and a key for the file's name otherwise, and no key of the result
\* maps to an empty list.
C12_NoKeyWithoutFindings ==
    [][ /\ (pc = "lines" /\ pc' = "files") =>
              IF high_entropy_strings = << >> /\ regex_secrets = << >>
              THEN secrets_found' = secrets_found
              ELSE FileNameOfPath[file_path] \in DOMAIN secrets_found'
        /\ \A n \in DOMAIN secrets_found' : secrets_found'[n] # << >> ]_vars

\* the scan of a file has ended with no finding and no key for it, in a run
\* that has findings for another file
C12_Witness ==
    /\ pc = "files"
    /\ file_path # << >>
    /\ high_entropy_strings = << >>
    /\ regex_secrets = << >>
    /\ secrets_found # EmptyDict
    /\ FileNameOfPath[file_path] \notin DOMAIN secrets_found

\* C13: no list of the result, and none of the report, holds a string twice.
C13_NoDuplicateFindings ==
    /\ \A n \in DOMAIN secrets_found : NoDuplicates(secrets_found[n])
    /\ \A n \in DOMAIN report : NoDuplicates(report[n])

\* a file was recorded whose line gave the same string as a pattern candidate
\* and as a high entropy string
C13_Witness ==
    /\ pc = "files"
    /\ file_path # << >>
    /\ Range(high_entropy_strings) \cap Range(regex_secrets) # {}
    /\ FileNameOfPath[file_path] \in DOMAIN secrets_found
    /\ Len(secrets_found[FileNameOfPath[file_path]])
           < Len(high_entropy_strings \o regex_secrets)

\* the paths of the entries of a diff that are added or modified, of a text
\* type and not the whitelist file
TextFilesOf(d) ==
    { d[i].path :
        i \in { k \in DOMAIN d :
                  /\ Upper(d[k].status) \in { << "M" >>, << "A" >> }
                  /\ Splitext(d[k].path)[2] \in text_file_types
                  /\ ~Contains(SECRETS_WHITE_LIST_FILE, d[k].path) } }

\* C14: get_diff_text_files returns, and returns exactly the paths of the
\* entries of the diff that are added or modified, of a text type and not
\* the whitelist file.
C14_DiffTextFiles ==
    (call = "get_diff_text_files" /\ call_pc # "called") =>
        /\ call_pc = "returned"
        /\ text_files_list = TextFilesOf(git_diff)

\* C16: calculate_shannon_entropy returns 0 for the empty string and for a
\* string of one repeated character, and what it returns for a string it
\* returns for every permutation of the string.
C16_EntropyAlgebra ==
    (call = "calculate_shannon_entropy" /\ call_pc = "returned") =>
        /\ entropy_data = << >> => entropy = 0
        /\ Cardinality(Range(entropy_data)) = 1 => entropy = 0
        /\ \A f \in Permutations(DOMAIN entropy_data) :
               calculate_shannon_entropy(
                   [i \in DOMAIN entropy_data |-> entropy_data[f[i]]]) = entropy

\* the entropy of a string of several different characters, some repeated,
\* has been returned
C16_Witness ==
    /\ call = "calculate_shannon_entropy"
    /\ call_pc = "returned"
    /\ Cardinality(Range(entropy_data)) > 1
    /\ Cardinality(Range(entropy_data)) < Len(entropy_data)
    /\ entropy > 0

\* the IPv4 addresses on each line of the pool
Ipv4OnLine == [l \in LinePool |-> Range(FindAll(Ipv4Regex, l))]

\* C15: when the scan of a file has passed all its lines, every IPv4 address
\* on a line without disable marker is among the pattern candidates of the
\* file, unless an entry of the effective whitelist that is not one of the
\* file's contextual entries is a substring of it.
C15_ContextualEntryKeepsAddress ==
    (pc = "lines" /\ lines_left = EmptyBag) =>
        \A l \in UnmarkedLines(file_path) :
            \A ip \in Ipv4OnLine[l] :
                ~InWhiteList(ip, secrets_white_list \ temp_white_list)
                    => ip \in Range(regex_secrets)

\* C17: when the scan of a file has ended with findings, no whitelist entry,
\* as the effective whitelist stands then, is a substring of the lowercased
\* form of a string recorded for the file.
C17_FindingsCheckedAtReportTime ==
    ( /\ pc = "files"
      /\ file_path # << >>
      /\ HasSecrets(high_entropy_strings, regex_secrets) ) =>
        \A t \in Range(secrets_found[FileNameOfPath[file_path]]) :
            ~InWhiteList(Lower(t), secrets_white_list)

\* the persistent whitelist, the contextual whitelist of the file being
\* scanned and the date literals of the lines of the file passed so far
WhiteListOfFile ==
    LoadedWhiteList(white_list_file) \cup temp_white_list
    \cup FalsePositivesOn((Range(LinesOfText[OnDisk(file_path).v])
                            \ BagToSet(lines_left))
                          \cap UnmarkedLines(file_path))

\* C18: the pass of the loop over a line without disable marker appends to
\* the high entropy strings exactly the stripped tokens of the line, in their
\* original case, whose lowercased form no entry of the persistent
\* whitelist, of the file's contextual whitelist or of the file's date
\* literals is a substring of and whose entropy is at least 3.8.
C18_EntropyCandidateIff ==
    [][ ( /\ pc = "lines"
          /\ pc' = "lines"
          /\ lines_left' # lines_left
          /\ ~Contains(DISABLE_MARKER, line') ) =>
            high_entropy_strings' =
                high_entropy_strings
                \o Filter(StrippedTokensOfLine[line'],
                          LAMBDA t :
                              /\ ~InWhiteList(Lower(t), WhiteListOfFile')
                              /\ EntropyOfToken[t] >= ENTROPY_THRESHOLD) ]_vars

\* C19: a pass of the loop over the lines takes a line that was still to
\* visit and leaves no line of the same text to visit in the scan of the
\* file.
C19_LinesDeduplicated ==
    [][ ( /\ pc = "lines"
          /\ pc' = "lines"
          /\ lines_left' # lines_left ) =>
            /\ line' \in BagToSet(lines_left)
            /\ line' \notin BagToSet(lines_left') ]_vars

\* the scan of a file that holds a line twice has passed all lines and has
\* the candidate of that line once
C19_Witness ==
    /\ pc = "lines"
    /\ lines_left = EmptyBag
    /\ Len(LinesOfText[OnDisk(file_path).v])
           > Cardinality(Range(LinesOfText[OnDisk(file_path).v]))
    /\ Len(regex_secrets) = 1
    /\ regex_secrets[1] \in Range(RegexForSecretsOnLine[line].potential_secrets)

\* C20: unless the whitelist file holds the empty string, the effective
\* whitelist never holds it.
C20_NoEmptyEntry ==
    << >> \notin LoadedWhiteList(white_list_file) =>
        << >> \notin secrets_white_list

\* C21: the validation of the files starts only from a scan that has
\* returned with no finding, and a scan that returned a finding is followed
\* by the report of the findings and the exit with status 1.
C21_ScanBeforeValidation ==
    [][ /\ (pc # "validating" /\ pc' = "validating") =>
              /\ pc = "returned"
              /\ files_left = {}
              /\ secrets_found = EmptyDict
        /\ (pc = "returned" /\ secrets_found # EmptyDict) =>
              /\ pc' = "exited"
              /\ exit_status' = 1
              /\ report' = secrets_found ]_vars

\* a run whose scan found something has printed the report and exited
C21_Witness ==
    /\ pc = "exited"
    /\ secrets_found # EmptyDict
    /\ report = secrets_found
    /\ exit_status = 1


(***************************************************************************)
(* Properties of wait_until_server_ready                                   *)
(***************************************************************************)
\* the loop of main is over
LoopEnded == wait_pc \in { "verify", "exited" }

\* the process exited out of the loop, timed out
TimedOutExit ==
    /\ wait_pc = "exited"
    /\ content_ok = "not called"

\* C22: the polling loop ends; it ends with every instance ready and the
\* content verification starting, or with the exit with status 1 at the
\* first pass that begins more than half an hour after the loop started.  An
\* instance is asked for its health only while it is pending, it leaves the
\* pending list at its first answer 200, and the content verification does
\* not start while an instance is pending.
C22_PollingLoopEnds ==
    /\ <>LoopEnded
    /\ [](\A ip \in IpsOf(instance_ips) :
              /\ health_ok[ip] <= 1
              /\ wait_pc \notin { "idle", "start" } =>
                     (health_ok[ip] = 1 <=> ip \notin Range(instance_ips_not_created)))
    /\ [](content_ok # "not called" \/ content_responses # << >> \/ wait_pc = "verify"
              => instance_ips_not_created = << >>)
    /\ [](TimedOutExit =>
              /\ wait_exit_status = 1
              /\ current_time - loop_start_time > 30 * 60)
    /\ [][ /\ \A ip \in IpsOf(instance_ips) :
                  health_sent'[ip] # health_sent[ip] =>
                      /\ ip \in Range(instance_ips_not_created)
                      /\ health_ok[ip] = 0
           /\ (wait_pc = "while" /\ instance_ips_not_created # << >>
                   /\ clock - loop_start_time > 30 * 60) => TimedOutExit'
           /\ (wait_pc = "while" /\ instance_ips_not_created = << >>) =>
                  wait_pc' = "verify" ]_vars

\* the process timed out with one instance ready and another still pending
C22_Witness ==
    /\ TimedOutExit
    /\ wait_exit_status = 1
    /\ \E ip \in IpsOf(instance_ips) : health_ok[ip] = 1
    /\ instance_ips_not_created # << >>


\* a dict whose release holds the expected version and whose releaseNotes
\* and installed are truthy
ExpectedContent(resp) ==
    /\ resp.k = "dict"
    /\ resp.release # None
    /\ Contains(content_version, resp.release.v)
    /\ resp.releaseNotes # None
    /\ resp.releaseNotes.v # << >>
    /\ resp.installed

\* True is returned with every instance asked and answering as expected;
\* False is returned at the first instance that does not, none asked after it
ReturnsAsVerified ==
    /\ content_ok = "True" =>
           /\ Len(content_responses) = Len(instance_ips)
           /\ \A i \in DOMAIN content_responses : ExpectedContent(content_responses[i])
    /\ content_ok = "False" =>
           /\ content_responses # << >>
           /\ Len(content_responses) = instance_index
           /\ \A i \in DOMAIN content_responses :
                  ExpectedContent(content_responses[i]) <=> i < Len(content_responses)

\* C23: is_correct_content_installed returns True only with every instance
\* answering with a dict of the expected content, returns False at the first
\* instance that does not (an API exception and a non-dict answer included)
\* without asking the later ones, and raises for none of these answers.
C23_ContentVerification ==
    /\ ReturnsAsVerified
    /\ content_ok # "raised"

====
